---- MODULE Spec2Model ----
(***************************************************************************)
(* Model of the fee/distribution optimizer of psbt-consolidator:           *)
(* calculateOptimalFee (src/feeCalculator.js) with the helpers it uses     *)
(* from src/utils.js.  One behaviour of Spec is one call of                *)
(* calculateOptimalFee; the sizing oracle (createrawtransaction followed   *)
(* by decoderawtransaction) is an external party whose answers are chosen  *)
(* nondeterministically.  One behaviour of SpecCli is one run of           *)
(* runConsolidator (src/cli.js), which calls calculateOptimalFee in its    *)
(* fourth step; SpecRate starts such a run at the fee-rate conversion.     *)
(***************************************************************************)
EXTENDS Integers, Sequences, FiniteSets, TLC

\* ------------------------------------------------------------------ bounds
\* Largest totalInputValue of the exhaustively enumerated calls.  The cap of
\* 20 iterations can only be exhausted without an insufficient-funds exit
\* when 21 strictly increasing guesses fit below the total, i.e. total >= 22.
MaxTotal == 22
\* Largest number of target outputs (derivedAddressesMap.size).
MaxTargets == 3
\* Largest number of inputs (inputs.length).
MaxInputs == 1
\* Largest configured estimatedWitnessVBytesPerInput of the enumerated calls
\* (they use 0 and this value).
MaxWitness == 1
\* Largest vsize the oracle reports in the enumerated calls.
MaxBase == 21
\* Fee rates of the enumerated calls are FeeRateDen/FeeRateDen ..
\* MaxFeeRateNum/FeeRateDen sat/vB (all >= 1.0, some fractional).
FeeRateDen == 2
MaxFeeRateNum == 3
\* Runs of runConsolidator: most target descriptors of a configuration,
\* most UTXOs the wallet lists, largest vsize the node reports.
MaxDescriptors == 2
MaxUtxos == 2
MaxRunBase == 1
\* Fee-rate estimates handed to the conversion range over
\* -MaxRateUnits .. MaxRateUnits millionths of a BTC/kvB (0.1 sat/vB each).
MaxRateUnits == 30
\* Repeated calls of calculateOptimalFee take totals 1 .. MaxAgainTotal.
MaxAgainTotal == 6
\* Satoshi amounts handed to the conversions have up to MaxDigits digits.
MaxDigits == 31

\* ------------------------------------------------------- program constants
MAX_FEE_ITERATIONS == 20

SATS_PER_BTC == 100000000

\* Decimal.set({ precision: 30 }): significant digits of a result.
DecimalPrecision == 30

\* decimalBtc.toFixed(8)
BtcDecimalPlaces == 8

\* estimatedWitnessVBytesPerInput when the configuration omits it.
DEFAULT_WITNESS_VBYTES == 28

\* The arguments of the call, the environment (how the sizing oracle
\* answers), the locals of calculateOptimalFee, the control state, and two
\* observers the code does not read.
VARIABLES
    run,                              \* runConsolidator: its locals, the exit code, the file
    inputs,                           \* the {txid, vout} list, as ids
    derivedAddressesMap,              \* descriptor -> derived address
    totalInputValue,                  \* BigInt
    numTargets,                       \* BigInt(derivedAddressesMap.size)
    numInputs,                        \* inputs.length
    estimatedWitnessVBytesPerInput,   \* config.feeOptions value or 28
    feeRateSatPerVbyte,               \* Decimal, as <<numerator, denominator>>
    oracle,                           \* how the sizing oracle answers
    finalFee,
    amountPerOutput,
    lastCalculatedBaseVBytes,
    lastEstimatedWitnessVBytes,
    lastTotalEstimatedVBytes,
    lastSizeBasedFee,
    lastRemainderSats,
    lastRequiredFee,
    currentFeeGuess,
    i,
    pc,                               \* "start", "loop", "after", "done"
    outcome,                          \* "none" until the call returns or throws
    iterations,                       \* loop bodies entered
    oracleCalls,                      \* sizing queries issued
    query,                            \* arguments of the last createRawTx call
    oracleError,                      \* the error the oracle threw, if any
    thrown,                           \* the error the call threw, if any
    guesses                           \* the fee guesses tried, kept for repeated calls

vars == << run, inputs, derivedAddressesMap, totalInputValue, numTargets, numInputs, estimatedWitnessVBytesPerInput,
           feeRateSatPerVbyte, oracle, finalFee, amountPerOutput,
           lastCalculatedBaseVBytes, lastEstimatedWitnessVBytes,
           lastTotalEstimatedVBytes, lastSizeBasedFee, lastRemainderSats,
           lastRequiredFee, currentFeeGuess, i, pc, outcome, iterations,
           oracleCalls, query, oracleError, thrown, guesses >>

args == << inputs, derivedAddressesMap, totalInputValue, numTargets, numInputs, estimatedWitnessVBytesPerInput,
           feeRateSatPerVbyte, oracle >>

lastVars == << lastCalculatedBaseVBytes, lastEstimatedWitnessVBytes,
               lastTotalEstimatedVBytes, lastSizeBasedFee, lastRemainderSats,
               lastRequiredFee >>

\* ------------------------------------------------------------ arithmetic
\* BigInt division truncates toward zero; the remainder takes the sign of
\* the dividend.
BigIntDiv(a, b) == IF a >= 0 THEN a \div b ELSE -((-a) \div b)

BigIntMod(a, b) == a - b * BigIntDiv(a, b)

\* Variant: the product is rounded down instead of up.
floorToBigInt(num, den) == num \div den

\* ceilToBigInt(value) for a Decimal value num/den (den > 0): the least
\* integer >= num/den.  Decimal's 30 significant digits hold every product
\* of the model exactly.
ceilToBigInt(num, den) == -((-num) \div den)

\* Variant: the fee rate is rounded up before the multiplication.
SizeBasedFeeOfRoundedRate(totalVBytes, rate) ==
    totalVBytes * ceilToBigInt(rate[1], rate[2])

\* new Decimal(lastTotalEstimatedVBytes).mul(feeRateSatPerVbyte), then ceil.
SizeBasedFee(totalVBytes, rate) == ceilToBigInt(totalVBytes * rate[1], rate[2])

\* Variant: the remainder is taken of the total, not of the value left to
\* distribute after the guess.
RemainderOfTotal(total, guess, n) == BigIntMod(total, n)

\* valueToDistribute / numTargets and valueToDistribute % numTargets.
AmountFor(total, guess, n) == BigIntDiv(total - guess, n)

RemainderFor(total, guess, n) == BigIntMod(total - guess, n)


\* Variant: the loop runs while i <= MAX_FEE_ITERATIONS.
LoopConditionInclusive(iter) == iter <= MAX_FEE_ITERATIONS

\* The condition of the for loop.
LoopCondition(iter) == iter < MAX_FEE_ITERATIONS

\* Variant: a guess equal to the required fee is not accepted.
ConvergedStrictly(guess, required) == guess > required

\* Variant: only a guess equal to the required fee is accepted, so a guess
\* above it is lowered to it.
ConvergedOnEquality(guess, required) == guess = required

\* The convergence test of the loop.
Converged(guess, required) == guess >= required

\* The post-loop test for "no valid positive fee and distribution".
InvalidResult(fee, amount) == fee <= 0 \/ amount <= 0

\* Variant: the final sanity check is left out.
BalanceUnchecked(amount, n, fee, total) == TRUE

\* The final sanity check.
BalanceHolds(amount, n, fee, total) == (amount * n) + fee = total

\* Variant: the cap is recognised only when i exceeds MAX_FEE_ITERATIONS.
FailureKindLateCap(total, guess, iter, lastTotal, lastRequired) ==
    IF lastTotal > 0 /\ lastRequired >= total THEN "InsufficientFundsRequired"
    ELSE IF guess >= total THEN "InsufficientFundsGuess"
    ELSE IF iter > MAX_FEE_ITERATIONS THEN "NonConvergence"
    ELSE "Undetermined"

\* Variant: a fee that exactly meets the total is not seen as insufficient.
FailureKindStrict(total, guess, iter, lastTotal, lastRequired) ==
    IF lastTotal > 0 /\ lastRequired > total THEN "InsufficientFundsRequired"
    ELSE IF guess > total THEN "InsufficientFundsGuess"
    ELSE IF iter >= MAX_FEE_ITERATIONS THEN "NonConvergence"
    ELSE "Undetermined"

\* The error thrown when the post-loop test finds no valid result.
FailureKind(total, guess, iter, lastTotal, lastRequired) ==
    IF lastTotal > 0 /\ lastRequired >= total THEN "InsufficientFundsRequired"
    ELSE IF guess >= total THEN "InsufficientFundsGuess"
    ELSE IF iter >= MAX_FEE_ITERATIONS THEN "NonConvergence"
    ELSE "Undetermined"

\* Variant: the found values are returned without the post-loop checks.
VerdictUnchecked(fee, amount, total, n, guess, iter, lastTotal, lastRequired) ==
    "returned"

\* Everything after the loop: the error handling, the final sanity check and
\* the return.
Verdict(fee, amount, total, n, guess, iter, lastTotal, lastRequired) ==
    IF InvalidResult(fee, amount)
        THEN FailureKind(total, guess, iter, lastTotal, lastRequired)
    ELSE IF ~BalanceHolds(amount, n, fee, total) THEN "InvariantViolation"
    ELSE "returned"

InsufficientFunds == {"InsufficientFundsRequired", "InsufficientFundsGuess"}

\* ------------------------------------------------------------ the errors
\* An Error object: who constructed it, and its message as a sequence of
\* text pieces (interpolated values are left out of the fixed texts).
NoError == [thrownBy |-> "nobody", message |-> << >>]

\* What createRawTx and decodeRawTx throw.
OracleErrors ==
    [thrownBy : {"oracle"},
     message : {<<"createrawtransaction did not return a valid hex string.">>,
                <<"decoderawtransaction did not return a valid vsize, weight, or size.">>}]

\* The message of the error thrown for each failure found by the function
\* itself.
MessageOf(kind) ==
    CASE kind = "ZeroTargets" ->
            <<"Cannot calculate fee with zero target outputs.">>
      [] kind = "NonPositiveTotal" ->
            <<"Total input value must be positive.">>
      [] kind = "InsufficientFundsRequired" ->
            <<"Insufficient funds: Total input is less than or equal to the minimum required fee">>
      [] kind = "InsufficientFundsGuess" ->
            <<"Insufficient funds: Final fee guess reached or exceeded total input value">>
      [] kind = "NonConvergence" ->
            <<"Failed to converge on an optimal fee within 20 iterations.">>
      [] kind = "Undetermined" ->
            <<"Failed to determine a valid fee/distribution.">>
      [] kind = "InvariantViolation" ->
            <<"Internal error: Final balance equation does not hold.">>

\* Variant: the catch block throws a new error that drops the cause.
RethrownWithoutCause(error) ==
    [thrownBy |-> "calculateOptimalFee",
     message |-> <<"Failed during fee calculation iteration: ">>]

\* The catch block: a new Error whose message is a fixed prefix followed by
\* the message of the caught error.
Rethrown(error) ==
    [thrownBy |-> "calculateOptimalFee",
     message |-> <<"Failed during fee calculation iteration: ">> \o error.message]

\* ------------------------------------------------------- the sizing query
\* ------------------------------------------------ decimal.js on digits
\* A BigInt or the coefficient of a Decimal is its sequence of decimal
\* digits, most significant first; a Decimal is digits / 10^scale with a
\* sign. An operation of decimal.js rounds its result to DecimalPrecision
\* significant digits, half up; the constructor does not round.
RECURSIVE StripZeros(_)
StripZeros(digits) ==
    IF digits = << >> THEN << >>
    ELSE IF Head(digits) = 0 THEN StripZeros(Tail(digits)) ELSE digits

RECURSIVE StripTrailingZeros(_)
StripTrailingZeros(digits) ==
    IF digits = << >> THEN << >>
    ELSE IF digits[Len(digits)] = 0
            THEN StripTrailingZeros(SubSeq(digits, 1, Len(digits) - 1))
            ELSE digits

Zeros(n) == [k \in 1..n |-> 0]

\* digits + 1
RECURSIVE Increment(_)
Increment(digits) ==
    IF digits = << >> THEN << 1 >>
    ELSE IF digits[Len(digits)] = 9
            THEN Append(Increment(SubSeq(digits, 1, Len(digits) - 1)), 0)
            ELSE [digits EXCEPT ![Len(digits)] = @ + 1]

\* The digits of a non-negative integer, and the integer of a short digit
\* sequence.
RECURSIVE DigitsOf(_)
DigitsOf(n) == IF n = 0 THEN << >> ELSE Append(DigitsOf(n \div 10), n % 10)

RECURSIVE ValueOf(_)
ValueOf(digits) ==
    IF digits = << >> THEN 0
    ELSE 10 * ValueOf(SubSeq(digits, 1, Len(digits) - 1)) + digits[Len(digits)]

\* The first keep digits, rounded half up on the next one; the digits after
\* them become zeros, so the position of the decimal point stays.
RoundHalfUp(digits, keep) ==
    IF Len(digits) <= keep THEN digits
    ELSE (IF digits[keep + 1] >= 5
             THEN Increment(SubSeq(digits, 1, keep))
             ELSE SubSeq(digits, 1, keep))
         \o Zeros(Len(digits) - keep)

\* The number of significant digits of a coefficient.
SignificantDigits(digits) == Len(StripTrailingZeros(StripZeros(digits)))

\* The rounding of a result to the configured precision.
ToPrecision(decimal) ==
    [decimal EXCEPT !.digits = RoundHalfUp(StripZeros(decimal.digits), DecimalPrecision)]

\* new Decimal(x.toString()) for a BigInt x given by its digits
DecimalOfBigInt(negative, digits) ==
    [negative |-> negative, digits |-> digits, scale |-> 0]

\* SATS_PER_BTC is a power of ten: the number of its zeros.
SatsPerBtcZeros == Len(DigitsOf(SATS_PER_BTC)) - 1

\* decimal.mul(SATS_PER_BTC.toString())
MulSatsPerBtc(decimal) ==
    ToPrecision(IF decimal.scale >= SatsPerBtcZeros
                    THEN [decimal EXCEPT !.scale = @ - SatsPerBtcZeros]
                    ELSE [decimal EXCEPT !.digits = @ \o Zeros(SatsPerBtcZeros - decimal.scale),
                                         !.scale = 0])

\* decimal.div(SATS_PER_BTC.toString())
DivSatsPerBtc(decimal) ==
    ToPrecision([decimal EXCEPT !.scale = @ + SatsPerBtcZeros])

\* Variant: the whole number nearest to the value, half up.
DecimalRound(decimal) ==
    LET whole == Len(decimal.digits) - decimal.scale
    IN  IF whole < 0 THEN [decimal EXCEPT !.digits = << >>, !.scale = 0]
        ELSE [decimal EXCEPT !.digits = SubSeq(RoundHalfUp(decimal.digits, whole),
                                                1, Len(RoundHalfUp(decimal.digits, whole))
                                                       - decimal.scale),
                             !.scale = 0]

\* decimal.floor() of a non-negative value: the digits before the point.
DecimalFloor(decimal) ==
    [decimal EXCEPT !.digits = IF Len(@) <= decimal.scale THEN << >>
                               ELSE SubSeq(@, 1, Len(@) - decimal.scale),
                    !.scale = 0]

\* decimal.toFixed(places) of a value with at most that many decimal
\* places: the string, as its sign, the digits before the point and the
\* digits after it.
toFixed(decimal, places) ==
    LET padded == Zeros(places + 1) \o decimal.digits \o Zeros(places - decimal.scale)
    IN  [negative |-> decimal.negative,
         whole |-> StripZeros(SubSeq(padded, 1, Len(padded) - places)),
         fraction |-> SubSeq(padded, Len(padded) - places + 1, Len(padded))]

\* new Decimal(string)
DecimalOfString(string) ==
    [negative |-> string.negative, digits |-> string.whole \o string.fraction,
     scale |-> Len(string.fraction)]

\* No string yet.
NoString == [negative |-> FALSE, whole |-> << >>, fraction |-> << >>]

\* satsToBtcString, from the digits of the BigInt on.
satsToBtcStringOfDigits(digits) ==
    toFixed(DivSatsPerBtc(DecimalOfBigInt(FALSE, digits)), BtcDecimalPlaces)

\* satsToBtcString of an amount far below the precision: the amount
\* divided by SATS_PER_BTC and printed with 8 decimal places, as
\* <<whole part, eight-digit fraction>>.
satsToBtcString(satsAmount) ==
    << satsAmount \div SATS_PER_BTC, satsAmount % SATS_PER_BTC >>

\* btcToSats of a string: the digits of the BigInt it returns.
btcToSats(btcAmount) ==
    StripZeros(DecimalFloor(MulSatsPerBtc(DecimalOfString(btcAmount))).digits)

\* The outputs object: one property per address, each holding the amount.
Outputs(addressMap, amountBtcString) ==
    [a \in {addressMap[d] : d \in DOMAIN addressMap} |-> amountBtcString]

NoQuery == [inputs |-> << >>, outputs |-> << >>]

Failures == InsufficientFunds \cup
            {"NonConvergence", "Undetermined", "SizingFailure",
             "InvariantViolation", "ZeroTargets", "NonPositiveTotal"}

\* ------------------------------------------------------------- the calls
\* Calls enumerated exhaustively within the bounds.  A "constant" oracle
\* reports the same vsize for every candidate amount; a "varying" oracle
\* may report any vsize at every query.
Oracles == [kind : {"constant"}, base : 0..MaxBase] \cup
           [kind : {"varying"}, base : {0}]

\* An oracle that may answer any size is called without a witness
\* estimate: the estimate would only shift the sizes it answers.
SmallCalls ==
    {c \in [total : (0 - 1)..MaxTotal, targets : 0..MaxTargets, inputs : 1..MaxInputs,
            witness : {0, MaxWitness},
            rate : {<<n, FeeRateDen>> : n \in FeeRateDen..MaxFeeRateNum},
            oracle : Oracles] :
        c.oracle.kind = "varying" => c.witness = 0}

\* The concrete scenarios of the specification: 3 inputs, witness estimate
\* 28, fee rate 2, constant vsize 300 (size-based fee 768).
ScenarioCall(total, targets) ==
    [total |-> total, targets |-> targets, inputs |-> 3, witness |-> 28,
     rate |-> <<2, 1>>, oracle |-> [kind |-> "constant", base |-> 300]]

ScenarioA == ScenarioCall(100000, 2)

ScenarioB == ScenarioCall(100000, 3)

ScenarioC == ScenarioCall(500, 2)

Calls == SmallCalls \cup {ScenarioA, ScenarioB, ScenarioC}

ThisCall ==
    [total |-> totalInputValue, targets |-> numTargets, inputs |-> numInputs,
     witness |-> estimatedWitnessVBytesPerInput, rate |-> feeRateSatPerVbyte,
     oracle |-> oracle]

\* Variant: every oracle may change its answer from query to query.
OracleAnswersVarying == 0..MaxBase

\* decodedTx.vsize: what the oracle may answer to a query.
OracleAnswers == IF oracle.kind = "constant" THEN {oracle.base} ELSE 0..MaxBase

\* ---------------------------------------------------------- JS values
\* A JSON or JS value that may be undefined, null or a number; a number is
\* the exact rational <<numerator, denominator>>.
Undefined == [type |-> "undefined", value |-> <<0, 1>>]

Null == [type |-> "null", value |-> <<0, 1>>]

Num(num, den) == [type |-> "number", value |-> <<num, den>>]

\* The state of runConsolidator when calculateOptimalFee is called on its
\* own.
NoRun ==
    [step |-> "none", exitCode |-> 0 - 1, failedAt |-> "none", fileWritten |-> FALSE,
     witnessOption |-> Undefined, targetDescriptors |-> << >>,
     sourceUtxos |-> << >>, targetUtxos |-> << >>,
     finalInputs |-> << >>, estimatedFeeRateBtcPerKvB |-> Undefined,
     outputsForTx |-> << >>, completed |-> << >>, earlier |-> << >>,
     satsAmount |-> << >>, btcAmount |-> NoString, satoshis |-> << >>]

\* The locals of calculateOptimalFee before the loop.
InitLocals ==
    /\ finalFee = -1
    /\ amountPerOutput = -1
    /\ lastCalculatedBaseVBytes = 0
    /\ lastEstimatedWitnessVBytes = 0
    /\ lastTotalEstimatedVBytes = 0
    /\ lastSizeBasedFee = 0
    /\ lastRemainderSats = 0
    /\ lastRequiredFee = 0
    /\ currentFeeGuess = 1
    /\ i = 0
    /\ outcome = "none"
    /\ iterations = 0
    /\ oracleCalls = 0
    /\ query = NoQuery
    /\ oracleError = NoError
    /\ thrown = NoError
    /\ guesses = << >>

Init ==
    /\ \E c \in Calls :
          /\ inputs = [k \in 1..c.inputs |-> k]
          /\ derivedAddressesMap = [d \in 1..c.targets |-> d]
          /\ totalInputValue = c.total
          /\ numTargets = c.targets
          /\ numInputs = c.inputs
          /\ estimatedWitnessVBytesPerInput = c.witness
          /\ feeRateSatPerVbyte = c.rate
          /\ oracle = c.oracle
    /\ run = NoRun
    /\ pc = "start"
    /\ InitLocals

\* ------------------------------------------------- argument validation
\* Variant: the error is recorded, but the call carries on with the checks
\* after the loop instead of ending.
ThrowSwallowed(kind, error) ==
    /\ pc' = "after"
    /\ outcome' = kind
    /\ thrown' = error

\* throw new Error(...): the call ends with the error.
Throw(kind, error) ==
    /\ pc' = "done"
    /\ outcome' = kind
    /\ thrown' = error

\* The function's own errors are new Error objects.
OwnError(kind) == [thrownBy |-> "calculateOptimalFee", message |-> MessageOf(kind)]

RejectZeroTargets ==
    /\ pc = "start"
    /\ numTargets = 0
    /\ Throw("ZeroTargets", OwnError("ZeroTargets"))
    /\ UNCHANGED << run, args, guesses, lastVars, finalFee, amountPerOutput, currentFeeGuess, i,
                    iterations, oracleCalls, query, oracleError >>

RejectNonPositiveTotal ==
    /\ pc = "start"
    /\ numTargets # 0
    /\ totalInputValue <= 0
    /\ Throw("NonPositiveTotal", OwnError("NonPositiveTotal"))
    /\ UNCHANGED << run, args, guesses, lastVars, finalFee, amountPerOutput, currentFeeGuess, i,
                    iterations, oracleCalls, query, oracleError >>

\* Variant: the loop is entered without the check of the total.
EnterLoopWithAnyTotal ==
    /\ pc = "start"
    /\ numTargets # 0
    /\ pc' = "loop"
    /\ UNCHANGED << run, args, guesses, lastVars, finalFee, amountPerOutput, currentFeeGuess, i,
                    outcome, iterations, oracleCalls, query, oracleError, thrown >>

EnterLoop ==
    /\ pc = "start"
    /\ numTargets # 0
    /\ totalInputValue > 0
    /\ pc' = "loop"
    /\ UNCHANGED << run, args, guesses, lastVars, finalFee, amountPerOutput, currentFeeGuess, i,
                    outcome, iterations, oracleCalls, query, oracleError, thrown >>

\* ------------------------------------------------------ one loop iteration
InLoop == pc = "loop" /\ LoopCondition(i)

\* The guess tried by a loop iteration joins the history while calls are
\* being repeated; a single call and a run of the tool keep no history.
Tried(guess, answer) ==
    IF run.step = "again"
        THEN Append(guesses, [guess |-> guess, answer |-> answer])
        ELSE guesses

\* What the oracle did in an iteration: it was not asked, it answered a
\* vsize, or it threw.
NotAsked == [vsize |-> 0 - 1, error |-> NoError]

Answered(vsize) == [vsize |-> vsize, error |-> NoError]

Threw(error) == [vsize |-> 0 - 1, error |-> error]

\* break with the failure sentinels
BreakFailed ==
    /\ finalFee' = -1
    /\ amountPerOutput' = 0
    /\ pc' = "after"
    /\ iterations' = iterations + 1
    /\ guesses' = Tried(currentFeeGuess, NotAsked)
    /\ UNCHANGED << run, args, lastVars, currentFeeGuess, i, outcome, oracleCalls,
                    query, oracleError, thrown >>

GuessExceedsTotal ==
    /\ InLoop
    /\ currentFeeGuess >= totalInputValue
    /\ BreakFailed

NonPositiveAmount ==
    /\ InLoop
    /\ currentFeeGuess < totalInputValue
    /\ AmountFor(totalInputValue, currentFeeGuess, numTargets) <= 0
    /\ BreakFailed

CanQuery ==
    /\ InLoop
    /\ currentFeeGuess < totalInputValue
    /\ AmountFor(totalInputValue, currentFeeGuess, numTargets) > 0

\* createRawTx(rpcClientConfig, inputs, outputs) for the current guess.
ThisQuery ==
    [inputs |-> inputs,
     outputs |-> Outputs(derivedAddressesMap,
                         satsToBtcString(AmountFor(totalInputValue, currentFeeGuess,
                                                   numTargets)))]

\* createRawTx or decodeRawTx throws: the catch block rethrows.
OracleFails ==
    /\ CanQuery
    /\ query' = ThisQuery
    /\ \E error \in OracleErrors :
          /\ oracleError' = error
          /\ Throw("SizingFailure", Rethrown(error))
          /\ guesses' = Tried(currentFeeGuess, Threw(error))
    /\ iterations' = iterations + 1
    /\ oracleCalls' = oracleCalls + 1
    /\ UNCHANGED << run, args, lastVars, finalFee, amountPerOutput, currentFeeGuess, i >>

\* The oracle answers vsize: steps 1-5 of the try block.
Measure(vsize) ==
    /\ lastCalculatedBaseVBytes' = vsize
    /\ lastEstimatedWitnessVBytes' = numInputs * estimatedWitnessVBytesPerInput
    /\ lastTotalEstimatedVBytes' = vsize + lastEstimatedWitnessVBytes'
    /\ lastSizeBasedFee' = SizeBasedFee(lastTotalEstimatedVBytes', feeRateSatPerVbyte)
    /\ lastRemainderSats' = RemainderFor(totalInputValue, currentFeeGuess, numTargets)
    /\ lastRequiredFee' = lastSizeBasedFee' + lastRemainderSats'
    /\ iterations' = iterations + 1
    /\ oracleCalls' = oracleCalls + 1
    /\ query' = ThisQuery
    /\ guesses' = Tried(currentFeeGuess, Answered(vsize))
    /\ UNCHANGED << oracleError, thrown >>

IterateConverged ==
    /\ CanQuery
    /\ \E vsize \in OracleAnswers : Measure(vsize)
    /\ Converged(currentFeeGuess, lastRequiredFee')
    /\ finalFee' = currentFeeGuess
    /\ amountPerOutput' = AmountFor(totalInputValue, currentFeeGuess, numTargets)
    /\ pc' = "after"
    /\ UNCHANGED << run, args, currentFeeGuess, i, outcome >>

\* The guess is raised to the required fee; the defensive check on a
\* negative guess breaks with the failure sentinels, otherwise i++.
IterateAdvance ==
    /\ CanQuery
    /\ \E vsize \in OracleAnswers : Measure(vsize)
    /\ ~Converged(currentFeeGuess, lastRequiredFee')
    /\ currentFeeGuess' = lastRequiredFee'
    /\ IF currentFeeGuess' < 0
          THEN /\ finalFee' = -1
               /\ amountPerOutput' = 0
               /\ pc' = "after"
               /\ i' = i
          ELSE /\ UNCHANGED << finalFee, amountPerOutput, pc >>
               /\ i' = i + 1
    /\ UNCHANGED << run, args, outcome >>

\* i reached MAX_FEE_ITERATIONS: the for loop ends.
LoopExhausted ==
    /\ pc = "loop"
    /\ ~LoopCondition(i)
    /\ pc' = "after"
    /\ UNCHANGED << run, args, guesses, lastVars, finalFee, amountPerOutput, currentFeeGuess, i,
                    outcome, iterations, oracleCalls, query, oracleError, thrown >>

\* ------------------------------------------------------- after the loop
Finish(kind) ==
    /\ pc = "after"
    /\ Throw(kind, IF kind = "returned" THEN NoError ELSE OwnError(kind))
    /\ UNCHANGED << run, args, guesses, lastVars, finalFee, amountPerOutput, currentFeeGuess, i,
                    iterations, oracleCalls, query, oracleError >>

ThisVerdict ==
    Verdict(finalFee, amountPerOutput, totalInputValue, numTargets, currentFeeGuess,
            i, lastTotalEstimatedVBytes, lastRequiredFee)

FailNoValidFee ==
    /\ ThisVerdict \notin {"InvariantViolation", "returned"}
    /\ Finish(ThisVerdict)

FailBalance ==
    /\ ThisVerdict = "InvariantViolation"
    /\ Finish("InvariantViolation")

ReturnResult ==
    /\ ThisVerdict = "returned"
    /\ Finish("returned")

Next ==
    \/ RejectZeroTargets
    \/ RejectNonPositiveTotal
    \/ EnterLoop
    \/ GuessExceedsTotal
    \/ NonPositiveAmount
    \/ OracleFails
    \/ IterateConverged
    \/ IterateAdvance
    \/ LoopExhausted
    \/ FailNoValidFee
    \/ FailBalance
    \/ ReturnResult

Spec == Init /\ [][Next]_vars

Returned == pc = "done" /\ outcome = "returned"

\* ============================================================ src/utils.js
\* Decimal values are exact rationals <<numerator, denominator>> in lowest
\* terms with a positive denominator.
RECURSIVE GCD(_, _)
GCD(a, b) == IF b = 0 THEN a ELSE GCD(b, a % b)

Abs(a) == IF a < 0 THEN 0 - a ELSE a

Normalise(num, den) ==
    LET g == GCD(Abs(num), den) IN << num \div g, den \div g >>

\* Decimal.mul and Decimal.div by a positive integer.
DecimalMul(r, k) ==
    LET g == GCD(k, r[2]) IN Normalise(r[1] * (k \div g), r[2] \div g)

DecimalDiv(r, k) ==
    LET g == GCD(Abs(r[1]), k) IN Normalise(r[1] \div g, r[2] * (k \div g))

\* Decimal.lessThan an integer.
lessThan(r, k) == r[1] < k * r[2]

\* Variant: the converted rate is returned without the floor of 1.0.
convertFeeRateUnfloored(feeRateBtcPerKvB) ==
    IF feeRateBtcPerKvB.type # "number"
        THEN << 1, 1 >>
        ELSE DecimalDiv(DecimalMul(feeRateBtcPerKvB.value, SATS_PER_BTC), 1000)

\* convertFeeRateToSatPerVb: BTC/kvB to sat/vB, never below 1.0.
convertFeeRateToSatPerVb(feeRateBtcPerKvB) ==
    IF \/ feeRateBtcPerKvB.type \in {"null", "undefined"}
       \/ feeRateBtcPerKvB.value[1] <= 0
        THEN << 1, 1 >>
        ELSE LET rateSatPerVb ==
                     DecimalDiv(DecimalMul(feeRateBtcPerKvB.value, SATS_PER_BTC), 1000)
             IN  IF lessThan(rateSatPerVb, 1) THEN << 1, 1 >> ELSE rateSatPerVb

\* ====================================================== bitcoinCoreUtils
\* Estimates are multiples of a millionth of a BTC/kvB.
EstimateResolution == 1000000

\* The minimum rate estimateFeeRate falls back to: 0.00001000 BTC/kvB.
FallbackFeeRate == Num(10, EstimateResolution)

\* Results of estimatesmartfee: an errors array that is empty or not, and a
\* feerate that is missing, zero, below or above 1 sat/vB.
EstimateResults ==
    [errors : {FALSE},
     feerate : {Undefined} \cup {Num(n, EstimateResolution) : n \in {0, 5, 15}}]
    \cup {[errors |-> TRUE, feerate |-> Num(15, EstimateResolution)]}

estimateFeeRate(result) ==
    IF result.errors THEN FallbackFeeRate
    ELSE IF result.feerate.type # "number" \/ result.feerate.value[1] <= 0
        THEN FallbackFeeRate
    ELSE result.feerate

\* The wallet's spendable UTXOs: outpoint k is {txid: k, vout: 0}; the
\* first one is large, the others small.
Utxo(k) == [txid |-> k, vout |-> 0, amount |-> IF k = 1 THEN 40 ELSE 3]

Outpoints == 1..MaxUtxos

\* A list of UTXOs as listunspent returns it.
RECURSIVE UtxoList(_)
UtxoList(S) ==
    IF S = {} THEN << >>
    ELSE LET k == CHOOSE m \in S : \A n \in S : m <= n
         IN  << Utxo(k) >> \o UtxoList(S \ {k})

\* The addresses deriveaddresses may return.
Addresses == 1..MaxDescriptors

\* ================================================================ src/cli.js
\* Number.isInteger of a number value.
IsInteger(v) == v.type = "number" /\ v.value[1] % v.value[2] = 0

\* Variant: any number is accepted as the witness estimate.
ValidWitnessOptionAnyNumber(v) == v.type \in {"undefined", "number"}

\* validateConfig on feeOptions.estimatedWitnessVBytesPerInput.
ValidWitnessOption(v) ==
    v.type = "undefined" \/ (IsInteger(v) /\ v.value[1] >= 0)

\* validateConfig: the target descriptors and the witness option.
ValidConfig(r) ==
    /\ Len(r.targetDescriptors) # 0
    /\ ValidWitnessOption(r.witnessOption)

\* config.feeOptions?.estimatedWitnessVBytesPerInput ?? 28
ResolveWitness(v) ==
    IF v.type \in {"undefined", "null"}
        THEN DEFAULT_WITNESS_VBYTES
        ELSE v.value[1] \div v.value[2]

\* Variant: every listed UTXO becomes an input, duplicates included.
KeepAll(utxos, seen) == utxos

\* The utxoMap: the first UTXO of each txid:vout key is kept.
RECURSIVE Deduplicate(_, _)
Deduplicate(utxos, seen) ==
    IF utxos = << >> THEN << >>
    ELSE LET key == << Head(utxos).txid, Head(utxos).vout >>
         IN  IF key \in seen
                 THEN Deduplicate(Tail(utxos), seen)
                 ELSE << Head(utxos) >> \o Deduplicate(Tail(utxos), seen \cup {key})

RECURSIVE SumAmounts(_)
SumAmounts(utxos) ==
    IF utxos = << >> THEN 0 ELSE Head(utxos).amount + SumAmounts(Tail(utxos))

\* finalInputs.map(utxo => ({ txid, vout }))
InputsForTx(utxos) ==
    [k \in DOMAIN utxos |-> [txid |-> utxos[k].txid, vout |-> utxos[k].vout]]

\* The configurations: the witness option is omitted, null, an integer from
\* -1 on, or a fraction; the target descriptors are none, distinct ones, or
\* one repeated.
WitnessOptions ==
    {Undefined, Null, Num(1, 2)} \cup {Num(w, 1) : w \in (0 - 1)..MaxWitness}

TargetDescriptorLists ==
    {[k \in 1..n |-> k] : n \in 0..MaxDescriptors}
        \cup {[k \in 1..n |-> 1] : n \in 2..MaxDescriptors}

RunOracles == [kind : {"constant"}, base : 0..MaxRunBase]

locals == << finalFee, amountPerOutput, lastVars, currentFeeGuess, i, outcome,
             iterations, oracleCalls, query, oracleError, thrown, guesses >>

\* Before calculateOptimalFee is called.
NotCalled ==
    /\ pc = "idle"
    /\ InitLocals
    /\ inputs = << >>
    /\ numInputs = 0
    /\ numTargets = 0

InitCli ==
    /\ \E w \in WitnessOptions, t \in TargetDescriptorLists :
          run = [NoRun EXCEPT !.step = "load", !.witnessOption = w,
                              !.targetDescriptors = t]
    /\ oracle \in RunOracles
    /\ NotCalled
    /\ derivedAddressesMap = << >>
    /\ totalInputValue = 0
    /\ estimatedWitnessVBytesPerInput = 0
    /\ feeRateSatPerVbyte = << 1, 1 >>

\* process.exit(code), and the normal end of the process; failedAt notes
\* the step that failed.
Exit(code) ==
    run' = [run EXCEPT !.step = "exited", !.exitCode = code,
                       !.failedAt = IF code = 0 THEN "none" ELSE run.step]

\* The step is done: on to the next one.
Goto(step) == run' = [run EXCEPT !.step = step]

Completed(phase, step) ==
    run' = [run EXCEPT !.step = step, !.completed = Append(@, phase)]

\* fs.readFile or JSON.parse throws.
LoadConfigFails ==
    /\ run.step = "load"
    /\ Exit(1)
    /\ UNCHANGED << args, pc, locals >>

RejectConfig ==
    /\ run.step = "load"
    /\ ~ValidConfig(run)
    /\ Exit(1)
    /\ UNCHANGED << args, pc, locals >>

AcceptConfig ==
    /\ run.step = "load"
    /\ ValidConfig(run)
    /\ estimatedWitnessVBytesPerInput' = ResolveWitness(run.witnessOption)
    /\ Goto("checks")
    /\ UNCHANGED << inputs, derivedAddressesMap, totalInputValue, numTargets,
                    numInputs, feeRateSatPerVbyte, oracle, pc, locals >>

\* Any of the RPC calls or the file write throws: the catch block exits.
StepFails ==
    /\ run.step \in {"checks", "discover", "derive", "estimate", "createFinal",
                      "convertToPsbt", "processPsbt", "write"}
    /\ Exit(1)
    /\ UNCHANGED << args, pc, locals >>

CoreChecks ==
    /\ run.step = "checks"
    /\ Completed("checks", "discover")
    /\ UNCHANGED << args, pc, locals >>

\* The source-address UTXOs and the target-descriptor UTXOs are listed,
\* combined and summed.
DiscoverInputs ==
    /\ run.step = "discover"
    /\ \E source \in SUBSET Outpoints, target \in SUBSET Outpoints :
          LET finalInputs == Deduplicate(UtxoList(source) \o UtxoList(target), {})
              total == SumAmounts(finalInputs)
          IN  IF Len(finalInputs) = 0 \/ total <= 0
                  THEN Exit(1) /\ UNCHANGED totalInputValue
                  ELSE /\ run' = [run EXCEPT !.step = "derive",
                                             !.sourceUtxos = UtxoList(source),
                                             !.targetUtxos = UtxoList(target),
                                             !.finalInputs = finalInputs,
                                             !.completed = Append(@, "discover")]
                       /\ totalInputValue' = total
    /\ UNCHANGED << inputs, derivedAddressesMap, numTargets, numInputs,
                    estimatedWitnessVBytesPerInput, feeRateSatPerVbyte, oracle,
                    pc, locals >>

\* deriveOutputAddresses, then the size check.  Nothing reads the two UTXO
\* lists after the inputs are combined: the model forgets them here.
DeriveAddresses ==
    /\ run.step = "derive"
    /\ \E derived \in [{run.targetDescriptors[k] : k \in DOMAIN run.targetDescriptors}
                          -> Addresses] :
          IF Cardinality(DOMAIN derived) # Len(run.targetDescriptors)
              THEN Exit(1) /\ UNCHANGED derivedAddressesMap
              ELSE /\ run' = [run EXCEPT !.step = "estimate",
                                         !.sourceUtxos = << >>,
                                         !.targetUtxos = << >>,
                                         !.completed = Append(@, "derive")]
                   /\ derivedAddressesMap' = derived
    /\ UNCHANGED << inputs, totalInputValue, numTargets, numInputs,
                    estimatedWitnessVBytesPerInput, feeRateSatPerVbyte, oracle,
                    pc, locals >>

EstimateFeeRate ==
    /\ run.step = "estimate"
    /\ \E result \in EstimateResults :
          run' = [run EXCEPT !.step = "convertRate",
                             !.estimatedFeeRateBtcPerKvB = estimateFeeRate(result)]
    /\ UNCHANGED << args, pc, locals >>

ConvertFeeRate ==
    /\ run.step = "convertRate"
    /\ feeRateSatPerVbyte' = convertFeeRateToSatPerVb(run.estimatedFeeRateBtcPerKvB)
    /\ Goto("call")
    /\ UNCHANGED << inputs, derivedAddressesMap, totalInputValue, numTargets,
                    numInputs, estimatedWitnessVBytesPerInput, oracle, pc, locals >>

\* calculateOptimalFee is entered with the arguments of the run.
CallOptimizer ==
    /\ run.step = "call"
    /\ pc = "idle"
    /\ inputs' = InputsForTx(run.finalInputs)
    /\ numInputs' = Len(run.finalInputs)
    /\ numTargets' = Cardinality(DOMAIN derivedAddressesMap)
    /\ pc' = "start"
    /\ Goto("optimize")
    /\ UNCHANGED << derivedAddressesMap, totalInputValue,
                    estimatedWitnessVBytesPerInput, feeRateSatPerVbyte, oracle,
                    locals >>

\* A step of calculateOptimalFee.
Optimize == run.step = "optimize" /\ Next

\* Variant: the error of calculateOptimalFee is caught and the run goes on
\* with whatever the call left behind.
OptimizerThrewIgnored ==
    /\ run.step = "optimize"
    /\ pc = "done"
    /\ outcome # "returned"
    /\ Goto("createFinal")
    /\ UNCHANGED << args, pc, locals >>

\* calculateOptimalFee threw: the catch block exits.
OptimizerThrew ==
    /\ run.step = "optimize"
    /\ pc = "done"
    /\ outcome # "returned"
    /\ Exit(1)
    /\ UNCHANGED << args, pc, locals >>

OptimizerReturned ==
    /\ run.step = "optimize"
    /\ Returned
    /\ Completed("optimize", "createFinal")
    /\ UNCHANGED << args, pc, locals >>

\* Variant: the final transaction shares the value left after the fee among
\* the outputs it really has, instead of reusing amountPerOutput.
CreateFinalTxSharingAnew ==
    /\ run.step = "createFinal"
    /\ run' = [run EXCEPT !.step = "convertToPsbt",
                          !.outputsForTx =
                              Outputs(derivedAddressesMap,
                                      satsToBtcString(
                                          BigIntDiv(totalInputValue - finalFee,
                                                    Cardinality({derivedAddressesMap[d] :
                                                                 d \in DOMAIN derivedAddressesMap}))))]
    /\ UNCHANGED << args, pc, locals >>

\* outputsForTx is built and createRawTx answers.
CreateFinalTx ==
    /\ run.step = "createFinal"
    /\ run' = [run EXCEPT !.step = "convertToPsbt",
                          !.outputsForTx =
                              Outputs(derivedAddressesMap,
                                      satsToBtcString(amountPerOutput))]
    /\ UNCHANGED << args, pc, locals >>

ConvertToPsbt ==
    /\ run.step = "convertToPsbt"
    /\ Goto("processPsbt")
    /\ UNCHANGED << args, pc, locals >>

ProcessPsbt ==
    /\ run.step = "processPsbt"
    /\ Completed("construct", "write")
    /\ UNCHANGED << args, pc, locals >>

WriteFile ==
    /\ run.step = "write"
    /\ run' = [run EXCEPT !.step = "summary", !.fileWritten = TRUE,
                          !.completed = Append(@, "write")]
    /\ UNCHANGED << args, pc, locals >>

\* The summary is printed and the process ends.
Summary ==
    /\ run.step = "summary"
    /\ Exit(0)
    /\ UNCHANGED << args, pc, locals >>

NextCli ==
    \/ LoadConfigFails
    \/ RejectConfig
    \/ AcceptConfig
    \/ StepFails
    \/ CoreChecks
    \/ DiscoverInputs
    \/ DeriveAddresses
    \/ EstimateFeeRate
    \/ ConvertFeeRate
    \/ CallOptimizer
    \/ Optimize
    \/ OptimizerThrew
    \/ OptimizerReturned
    \/ CreateFinalTx
    \/ ConvertToPsbt
    \/ ProcessPsbt
    \/ WriteFile
    \/ Summary

SpecCli == InitCli /\ [][NextCli]_vars

\* ------------------------------------------------ the fee-rate conversion
\* What convertFeeRateToSatPerVb may be handed: null, undefined, and the
\* negative, zero and positive rates up to MaxRateUnits millionths.
FeeRateInputs ==
    {Undefined, Null}
        \cup {Num(n, EstimateResolution) : n \in (0 - MaxRateUnits)..MaxRateUnits}

\* A run that has found one UTXO and derived one address, about to convert
\* the estimate it was given.
InitRate ==
    /\ \E x \in FeeRateInputs :
          run = [NoRun EXCEPT !.step = "convertRate",
                              !.witnessOption = Num(MaxWitness, 1),
                              !.targetDescriptors = << 1 >>,
                              !.finalInputs = UtxoList({1}),
                              !.estimatedFeeRateBtcPerKvB = x,
                              !.completed = << "checks", "discover", "derive" >>]
    /\ oracle \in RunOracles
    /\ NotCalled
    /\ derivedAddressesMap = [d \in {1} |-> 1]
    /\ totalInputValue = SumAmounts(UtxoList({1}))
    /\ estimatedWitnessVBytesPerInput = MaxWitness
    /\ feeRateSatPerVbyte = << 1, 1 >>

NextRate ==
    \/ ConvertFeeRate
    \/ CallOptimizer
    \/ Optimize

SpecRate == InitRate /\ [][NextRate]_vars

\* ------------------------------------------------ the conversions alone
\* A satoshi amount is turned into a BTC string and the string back into
\* satoshis, or a BTC string with nine decimal places is turned into
\* satoshis.
SatsAmounts ==
    {<< >>} \cup {<< last >> : last \in {1, 5, 9}}
        \cup {<< lead >> \o [k \in 1..(len - 2) |-> fill] \o << last >> :
                 len \in 2..MaxDigits, lead \in {1, 9}, fill \in {0, 9},
                 last \in {0, 1, 5, 9}}

BtcAmounts ==
    {[negative |-> FALSE, whole |-> << >>,
      fraction |-> [k \in 1..(BtcDecimalPlaces + 1) |-> IF k = place THEN digit ELSE fill]] :
         place \in 1..(BtcDecimalPlaces + 1), digit \in {1, 5, 9}, fill \in {0, 9}}

InitConv ==
    /\ \/ \E x \in SatsAmounts :
             run = [NoRun EXCEPT !.step = "format", !.satsAmount = x]
       \/ \E string \in BtcAmounts :
             run = [NoRun EXCEPT !.step = "parse", !.btcAmount = string]
    /\ NotCalled
    /\ oracle = [kind |-> "constant", base |-> 0]
    /\ derivedAddressesMap = << >>
    /\ totalInputValue = 0
    /\ estimatedWitnessVBytesPerInput = 0
    /\ feeRateSatPerVbyte = << 1, 1 >>

FormatAmount ==
    /\ run.step = "format"
    /\ run' = [run EXCEPT !.step = "parse",
                          !.btcAmount = satsToBtcStringOfDigits(run.satsAmount),
                          !.completed = << "format" >>]
    /\ UNCHANGED << args, pc, locals >>

ParseAmount ==
    /\ run.step = "parse"
    /\ run' = [run EXCEPT !.step = "parsed", !.satoshis = btcToSats(run.btcAmount)]
    /\ UNCHANGED << args, pc, locals >>

NextConv ==
    \/ FormatAmount
    \/ ParseAmount

SpecConv == InitConv /\ [][NextConv]_vars

\* ------------------------------------------------ repeated calls
\* calculateOptimalFee is called, then called with any arguments, then
\* called with the first call's arguments again; what each finished call
\* tried and produced is kept in run.earlier.
AgainCalls ==
    [total : 1..MaxAgainTotal, targets : 1..MaxDescriptors, inputs : {1},
     witness : {0}, rate : {<<FeeRateDen, FeeRateDen>>},
     oracle : [kind : {"constant"}, base : 0..MaxRunBase]]

\* Variant: the guess, the loop counter and the results are module-level
\* variables that a new call finds as the previous call left them.
BeginCallWithOldLocals(c) ==
    /\ inputs' = [k \in 1..c.inputs |-> k]
    /\ derivedAddressesMap' = [d \in 1..c.targets |-> d]
    /\ totalInputValue' = c.total
    /\ numTargets' = c.targets
    /\ numInputs' = c.inputs
    /\ estimatedWitnessVBytesPerInput' = c.witness
    /\ feeRateSatPerVbyte' = c.rate
    /\ oracle' = c.oracle
    /\ pc' = "start"
    /\ outcome' = "none"
    /\ iterations' = 0
    /\ oracleCalls' = 0
    /\ query' = NoQuery
    /\ oracleError' = NoError
    /\ thrown' = NoError
    /\ guesses' = << >>
    /\ UNCHANGED << lastVars, finalFee, amountPerOutput, currentFeeGuess, i >>

\* A call binds its parameters and declares its locals anew.
BeginCall(c) ==
    /\ inputs' = [k \in 1..c.inputs |-> k]
    /\ derivedAddressesMap' = [d \in 1..c.targets |-> d]
    /\ totalInputValue' = c.total
    /\ numTargets' = c.targets
    /\ numInputs' = c.inputs
    /\ estimatedWitnessVBytesPerInput' = c.witness
    /\ feeRateSatPerVbyte' = c.rate
    /\ oracle' = c.oracle
    /\ pc' = "start"
    /\ finalFee' = -1
    /\ amountPerOutput' = -1
    /\ lastCalculatedBaseVBytes' = 0
    /\ lastEstimatedWitnessVBytes' = 0
    /\ lastTotalEstimatedVBytes' = 0
    /\ lastSizeBasedFee' = 0
    /\ lastRemainderSats' = 0
    /\ lastRequiredFee' = 0
    /\ currentFeeGuess' = 1
    /\ i' = 0
    /\ outcome' = "none"
    /\ iterations' = 0
    /\ oracleCalls' = 0
    /\ query' = NoQuery
    /\ oracleError' = NoError
    /\ thrown' = NoError
    /\ guesses' = << >>

\* What a finished call was given, was answered, tried and produced.
FinishedCall ==
    [call |-> ThisCall, tried |-> guesses, outcome |-> outcome, finalFee |-> finalFee,
     amountPerOutput |-> amountPerOutput, thrown |-> thrown]

InitAgain ==
    /\ \E c \in AgainCalls :
          /\ inputs = [k \in 1..c.inputs |-> k]
          /\ derivedAddressesMap = [d \in 1..c.targets |-> d]
          /\ totalInputValue = c.total
          /\ numTargets = c.targets
          /\ numInputs = c.inputs
          /\ estimatedWitnessVBytesPerInput = c.witness
          /\ feeRateSatPerVbyte = c.rate
          /\ oracle = c.oracle
    /\ run = [NoRun EXCEPT !.step = "again", !.earlier = << >>]
    /\ pc = "start"
    /\ InitLocals

StepOfCall == run.step = "again" /\ Next

CallAnother ==
    /\ run.step = "again"
    /\ pc = "done"
    /\ Len(run.earlier) = 0
    /\ run' = [run EXCEPT !.earlier = << FinishedCall >>]
    /\ \E c \in AgainCalls : BeginCall(c)

CallFirstAgain ==
    /\ run.step = "again"
    /\ pc = "done"
    /\ Len(run.earlier) = 1
    /\ run' = [run EXCEPT !.earlier = Append(run.earlier, FinishedCall)]
    /\ BeginCall(run.earlier[1].call)

NextAgain ==
    \/ StepOfCall
    \/ CallAnother
    \/ CallFirstAgain

SpecAgain == InitAgain /\ [][NextAgain]_vars

\* ================================================================= claims
\* feeRateSatPerVbyte >= 1.0
RateAtLeastOne == feeRateSatPerVbyte[1] >= feeRateSatPerVbyte[2]

\* The least integer >= num/den, found by search (num >= 0, den >= 1).
LeastIntegerAtLeast(num, den) ==
    CHOOSE k \in 0..num : k * den >= num /\ (k - 1) * den < num

\* C1: every returned result satisfies amountPerOutput * N + finalFee =
\* totalInputValue exactly, whatever the oracle answered.
C1_BalanceOnReturn ==
    Returned => amountPerOutput * numTargets + finalFee = totalInputValue

\* A result returned for three targets after an oracle changed its answers.
C1_Witness ==
    /\ Returned
    /\ oracle.kind = "varying"
    /\ numTargets = 3
    /\ iterations >= 3

\* C2: on valid input (total >= 1, N >= 1, fee rate >= 1, an oracle that
\* reports one positive size) the final balance check never fails, so the
\* outcome "Final balance equation does not hold" is unreachable.
C2_BalanceCheckNeverFails ==
    ( /\ totalInputValue >= 1
      /\ numTargets >= 1
      /\ RateAtLeastOne
      /\ oracle.kind = "constant"
      /\ oracle.base > 0 )
    => outcome # "InvariantViolation"

\* C3: minimality.  For a returned (F, A) no positive F' < F has
\* A' = floor((total - F') / N) > 0 and F' >= sizeBasedFee(A') +
\* ((total - F') mod N).  Stated for the oracles whose size-based fee is
\* known for every amount A': the amount-invariant ones.
C3_Minimality ==
    (Returned /\ oracle.kind = "constant") =>
        \A f \in 1..(finalFee - 1) :
            ~ ( /\ AmountFor(totalInputValue, f, numTargets) > 0
                /\ f >= SizeBasedFee(oracle.base
                                       + numInputs * estimatedWitnessVBytesPerInput,
                                     feeRateSatPerVbyte)
                        + RemainderFor(totalInputValue, f, numTargets) )

\* C4: scenario A (total 100000, two targets, size-based fee 768, an oracle
\* that always answers) ends with the result finalFee = 768 and
\* amountPerOutput = 49616.
C4_ScenarioA ==
    (ThisCall = ScenarioA /\ pc = "done" /\ outcome # "SizingFailure") =>
        /\ outcome = "returned"
        /\ finalFee = 768
        /\ amountPerOutput = 49616

\* C5: scenario B (total 100000, three targets, size-based fee 768, an
\* oracle that always answers) tries the guesses 1, 768, 769 in its first,
\* second and third iteration and returns finalFee = 769 and
\* amountPerOutput = 33077.
C5_ScenarioB ==
    ThisCall = ScenarioB =>
        /\ pc \in {"loop", "after"} =>
              \/ i = 0 /\ currentFeeGuess = 1
              \/ i = 1 /\ currentFeeGuess = 768
              \/ i = 2 /\ currentFeeGuess = 769
        /\ (pc = "done" /\ outcome # "SizingFailure") =>
              /\ outcome = "returned"
              /\ iterations = 3
              /\ finalFee = 769
              /\ amountPerOutput = 33077

C5_Witness ==
    /\ ThisCall = ScenarioB
    /\ Returned
    /\ finalFee = 769
    /\ oracleCalls = 3

\* C6: a returned result has finalFee > 0 and amountPerOutput > 0; a call
\* that ends holding a non-positive fee or amount ends in a thrown error.
C6_Positivity ==
    /\ Returned => (finalFee > 0 /\ amountPerOutput > 0)
    /\ (pc = "done" /\ (finalFee <= 0 \/ amountPerOutput <= 0)) => outcome \in Failures

\* A result returned after the guess was raised twice.
C6_Witness ==
    /\ Returned
    /\ iterations >= 3
    /\ finalFee > 1

\* C7: a returned (F, A) has A = floor((total - F) / N) and
\* F >= ceil((baseVBytes + numInputs * witnessVBytesPerInput) * feeRate)
\*      + ((total - F) mod N), baseVBytes being the oracle's answer in the
\* converging iteration.
C7_FeeFloor ==
    Returned =>
        /\ amountPerOutput = (totalInputValue - finalFee) \div numTargets
        /\ finalFee >=
              LeastIntegerAtLeast(
                  (lastCalculatedBaseVBytes + numInputs * estimatedWitnessVBytesPerInput)
                      * feeRateSatPerVbyte[1],
                  feeRateSatPerVbyte[2])
              + ((totalInputValue - finalFee) % numTargets)

\* A result whose fee is exactly the rounded-up product of a fractional fee
\* rate and the estimated size.
C7_Witness ==
    /\ Returned
    /\ (lastTotalEstimatedVBytes * feeRateSatPerVbyte[1]) % feeRateSatPerVbyte[2] # 0
    /\ finalFee = lastSizeBasedFee

\* Steps the call can still take: strictly decreasing, never negative.
Variant ==
    CASE pc = "start" -> MAX_FEE_ITERATIONS + 3
      [] pc = "loop"  -> (MAX_FEE_ITERATIONS - i) + 2
      [] pc = "after" -> 1
      [] OTHER        -> 0

\* C8: every call terminates, whatever the oracle answers, after at most 20
\* loop iterations and at most 20 oracle queries, with exactly one outcome:
\* the call can always take a step until it has ended, every step brings
\* the end nearer, and nothing happens once the outcome is set.
C8_Terminates ==
    /\ [] ( /\ iterations <= MAX_FEE_ITERATIONS
            /\ oracleCalls <= MAX_FEE_ITERATIONS
            /\ oracleCalls <= iterations
            /\ Variant >= 0
            /\ pc # "done" => ENABLED Next
            /\ pc = "done" <=> outcome # "none"
            /\ outcome \in {"none", "returned"} \cup Failures )
    /\ [][outcome = "none" /\ Variant' < Variant]_vars

\* A call that ended after 20 iterations, each with an oracle query.
C8_Witness ==
    /\ pc = "done"
    /\ iterations = MAX_FEE_ITERATIONS
    /\ oracleCalls = MAX_FEE_ITERATIONS

\* C9 as claimed: when the cap of 20 iterations is exhausted without
\* convergence, the call fails with NonConvergence.
C9_CapMeansNonConvergence ==
    (pc = "done" /\ i >= MAX_FEE_ITERATIONS) => outcome = "NonConvergence"

\* C9 as amended: when the cap is exhausted without convergence no result is
\* returned; the failure is NonConvergence when the required fee of the last
\* iteration is below totalInputValue, and the insufficient-funds failure
\* naming the required fee when it meets or exceeds totalInputValue.
C9_CapExhausted ==
    (pc = "done" /\ i >= MAX_FEE_ITERATIONS) =>
        /\ finalFee = -1
        /\ outcome = IF lastRequiredFee >= totalInputValue
                        THEN "InsufficientFundsRequired"
                        ELSE "NonConvergence"

\* Twenty iterations of an ever-growing size, all below the total.
C9_Witness ==
    /\ pc = "done"
    /\ i >= MAX_FEE_ITERATIONS
    /\ iterations = MAX_FEE_ITERATIONS
    /\ outcome = "NonConvergence"

\* C10: a call whose guess met or exceeded totalInputValue at the start of
\* an iteration, or whose computed required fee met or exceeded it, fails
\* with one of the insufficient-funds errors and returns nothing; so does
\* scenario C (total 500, size-based fee 768).
C10_InsufficientFunds ==
    /\ ( /\ pc = "done"
         /\ totalInputValue >= 1
         /\ numTargets >= 1
         /\ (currentFeeGuess >= totalInputValue \/ lastRequiredFee >= totalInputValue) )
       => outcome \in InsufficientFunds
    /\ (pc = "loop" /\ currentFeeGuess >= totalInputValue) => finalFee = -1
    /\ (ThisCall = ScenarioC /\ pc = "done" /\ outcome # "SizingFailure")
       => outcome \in InsufficientFunds

\* Scenario C ended after its second iteration found the guess 769 >= 500.
C10_Witness ==
    /\ ThisCall = ScenarioC
    /\ pc = "done"
    /\ iterations = 2
    /\ currentFeeGuess = 769
    /\ outcome = "InsufficientFundsRequired"

\* C11: a guess below the total that leaves a non-positive amount per
\* output ends in an insufficient-funds failure, and every failure of the
\* search on valid input (total >= 1, N >= 1) is one of InsufficientFunds,
\* SizingFailure, NonConvergence or InvariantViolation.
C11_FailuresClassified ==
    /\ ( /\ pc = "done"
         /\ finalFee = -1
         /\ amountPerOutput = 0
         /\ currentFeeGuess < totalInputValue
         /\ AmountFor(totalInputValue, currentFeeGuess, numTargets) <= 0 )
       => outcome \in InsufficientFunds
    /\ ( /\ pc = "done"
         /\ totalInputValue >= 1
         /\ numTargets >= 1
         /\ outcome # "returned" )
       => outcome \in InsufficientFunds \cup
                      {"SizingFailure", "NonConvergence", "InvariantViolation"}

\* C12 as written: when the oracle fails, the call fails with the oracle's
\* own error, unchanged.
C12_PropagatedVerbatim ==
    (pc = "done" /\ outcome = "SizingFailure") => thrown = oracleError

\* C12: when the oracle fails, the call fails at once, without a retry, with
\* a new error whose message is "Failed during fee calculation iteration: "
\* followed by the message of the oracle's error.
C12_PropagatedWrapped ==
    (pc = "done" /\ outcome = "SizingFailure") =>
        /\ oracleError \in OracleErrors
        /\ thrown.thrownBy = "calculateOptimalFee"
        /\ thrown.message =
              <<"Failed during fee calculation iteration: ">> \o oracleError.message
        /\ oracleCalls = iterations
        /\ oracleCalls = i + 1

\* The oracle answered twice and failed at the third query.
C12_Witness ==
    /\ pc = "done"
    /\ outcome = "SizingFailure"
    /\ oracleCalls = 3
    /\ oracleError.message =
          <<"decoderawtransaction did not return a valid vsize, weight, or size.">>

\* C13: any failure aborts the whole call.  A step that fails ends the call
\* with an error and leaves the fee, the amount and the guess as they were;
\* a loop exit that found no valid fee, and a balance mismatch, are followed
\* by an error and by no oracle query; and once the call has failed or
\* returned nothing more happens, so no query is retried and no result
\* follows a failure.
C13_FailureAborts ==
    /\ [] ( (pc = "done" /\ outcome \in Failures) =>
                (thrown # NoError /\ ~Returned) )
    /\ [][ /\ outcome = "none"
           /\ outcome' \in Failures =>
                 /\ pc' = "done"
                 /\ thrown' # NoError
                 /\ finalFee' = finalFee
                 /\ amountPerOutput' = amountPerOutput
                 /\ currentFeeGuess' = currentFeeGuess
           /\ (pc = "loop" /\ pc' = "after" /\ finalFee' <= 0) =>
                 oracleCalls' = oracleCalls
           /\ ( /\ pc = "after"
                /\ \/ InvalidResult(finalFee, amountPerOutput)
                   \/ ~BalanceHolds(amountPerOutput, numTargets, finalFee,
                                    totalInputValue) ) =>
                 /\ outcome' \in Failures
                 /\ oracleCalls' = oracleCalls ]_vars

\* A balance mismatch found after two answered queries: the call failed
\* although a fee had been found.
C13_Witness ==
    /\ pc = "done"
    /\ outcome = "InvariantViolation"
    /\ oracleCalls = 2
    /\ finalFee > 0

\* C14: the guesses of one call are strictly increasing.  The first guess
\* is 1; whenever the loop goes on to a further iteration the new guess is
\* the required fee (sizeBasedFee + remainder) just computed, which is
\* greater than the guess it replaces; the guess changes in no other way.
C14_MonotoneAscent ==
    /\ [] ( /\ i = 0 => currentFeeGuess = 1
            /\ (pc = "loop" /\ i >= 1) => currentFeeGuess = lastRequiredFee )
    /\ [][ /\ currentFeeGuess' >= currentFeeGuess
           /\ i' # i => (i' = i + 1 /\ currentFeeGuess' > currentFeeGuess)
           /\ currentFeeGuess' # currentFeeGuess =>
                 /\ i' = i + 1
                 /\ lastRemainderSats' =
                       (totalInputValue - currentFeeGuess) % numTargets
                 /\ currentFeeGuess' = lastSizeBasedFee' + lastRemainderSats' ]_vars

\* A fourth iteration about to start: three guesses were replaced.
C14_Witness ==
    /\ pc = "loop"
    /\ i = 3
    /\ currentFeeGuess > 3
    /\ oracle.kind = "varying"

C16_RequiredFee ==
    [][ (oracleCalls' = oracleCalls + 1 /\ outcome' = "none") =>
          /\ lastTotalEstimatedVBytes' =
                lastCalculatedBaseVBytes' + numInputs * estimatedWitnessVBytesPerInput
          /\ lastSizeBasedFee' * feeRateSatPerVbyte[2]
                >= lastTotalEstimatedVBytes' * feeRateSatPerVbyte[1]
          /\ (lastSizeBasedFee' - 1) * feeRateSatPerVbyte[2]
                < lastTotalEstimatedVBytes' * feeRateSatPerVbyte[1]
          /\ lastRequiredFee' =
                lastSizeBasedFee'
                  + ((totalInputValue - currentFeeGuess) % numTargets) ]_vars

\* A second answered query with a fractional product and a non-zero
\* remainder.
C16_Witness ==
    /\ oracleCalls = 2
    /\ outcome = "none"
    /\ (lastTotalEstimatedVBytes * feeRateSatPerVbyte[1]) % feeRateSatPerVbyte[2] # 0
    /\ lastRemainderSats > 0
    /\ lastRequiredFee = lastSizeBasedFee + lastRemainderSats

\* C17: the fee rate handed to calculateOptimalFee is at least 1.0 sat/vB.
\* convertFeeRateToSatPerVb returns exactly 1.0 for null, undefined, zero
\* and negative estimates and for estimates whose converted rate
\* (BTC/kvB * 100000) is below 1.0, and the exact converted rate otherwise;
\* the optimizer uses the rate as handed over, without a floor of its own.
C17_FeeRateFloor ==
    /\ [] ( run.step \in {"call", "optimize"} =>
              LET x == run.estimatedFeeRateBtcPerKvB
                  r == feeRateSatPerVbyte
              IN  /\ r[2] > 0
                  /\ r[1] >= r[2]
                  /\ IF \/ x.type \in {"null", "undefined"}
                        \/ x.value[1] <= 0
                        \/ x.value[1] * 100000 < x.value[2]
                         THEN r = << 1, 1 >>
                         ELSE r[1] * x.value[2] = x.value[1] * 100000 * r[2] )
    /\ [][ pc # "idle" =>
             /\ feeRateSatPerVbyte' = feeRateSatPerVbyte
             /\ (oracleCalls' = oracleCalls + 1 /\ outcome' = "none") =>
                   lastSizeBasedFee' =
                       LeastIntegerAtLeast(
                           lastTotalEstimatedVBytes' * feeRateSatPerVbyte[1],
                           feeRateSatPerVbyte[2]) ]_vars

\* An estimate of 0.5 sat/vB was raised to 1.0 and the optimizer returned
\* a fee computed at that rate.
C17_Witness ==
    /\ run.estimatedFeeRateBtcPerKvB = Num(5, EstimateResolution)
    /\ feeRateSatPerVbyte = << 1, 1 >>
    /\ Returned
    /\ finalFee = lastTotalEstimatedVBytes

\* The configuration passed validateConfig.
ConfigAccepted == run.step \notin {"none", "load"} /\ run.failedAt # "load"

\* C18 as written: the witness estimate used in the fee calculation is a
\* positive integer, and validation accepts a configured value only if it is
\* a positive integer.
C18_WitnessPositive ==
    ConfigAccepted =>
        /\ estimatedWitnessVBytesPerInput >= 1
        /\ run.witnessOption.type = "number" =>
              (IsInteger(run.witnessOption) /\ run.witnessOption.value[1] >= 1)

\* C18: the witness estimate used in the fee calculation is a non-negative
\* integer: 28 when the option is omitted, otherwise the configured value;
\* validation accepts a configured value exactly if it is a non-negative
\* integer (0 included; null, fractions and negative numbers are rejected).
C18_WitnessNonNegative ==
    /\ ConfigAccepted =>
          /\ estimatedWitnessVBytesPerInput >= 0
          /\ run.witnessOption.type \in {"undefined", "number"}
          /\ run.witnessOption.type = "undefined" =>
                estimatedWitnessVBytesPerInput = 28
          /\ run.witnessOption.type = "number" =>
                /\ run.witnessOption.value[1] % run.witnessOption.value[2] = 0
                /\ estimatedWitnessVBytesPerInput * run.witnessOption.value[2]
                      = run.witnessOption.value[1]
          /\ oracleCalls > 0 /\ outcome # "SizingFailure" =>
                lastEstimatedWitnessVBytes
                    = numInputs * estimatedWitnessVBytesPerInput
    /\ ( /\ run.step = "load"
         /\ Len(run.targetDescriptors) > 0
         /\ run.witnessOption.type = "number"
         /\ run.witnessOption.value[1] % run.witnessOption.value[2] = 0
         /\ run.witnessOption.value[1] >= 0 ) => ENABLED AcceptConfig

\* A run configured with a witness estimate of 0 whose fee calculation
\* returned a result.
C18_Witness ==
    /\ ConfigAccepted
    /\ run.witnessOption = Num(0, 1)
    /\ Returned
    /\ lastEstimatedWitnessVBytes = 0
    /\ finalFee >= 1

\* C19: the final transaction has exactly N outputs, N the number of target
\* descriptors, one per descriptor to its derived address, each of the value
\* amountPerOutput, and nothing else (no change); every output set handed
\* to the sizing oracle has N outputs of one amount as well.
C19_ExactlyNOutputs ==
    /\ DOMAIN run.outputsForTx # {} =>
          /\ Cardinality(DOMAIN run.outputsForTx) = Len(run.targetDescriptors)
          /\ DOMAIN run.outputsForTx
                = {derivedAddressesMap[d] : d \in DOMAIN derivedAddressesMap}
          /\ \A a \in DOMAIN run.outputsForTx :
                run.outputsForTx[a] = satsToBtcString(amountPerOutput)
    /\ (run.step # "none" /\ oracleCalls > 0) =>
          /\ Cardinality(DOMAIN query.outputs) = Len(run.targetDescriptors)
          /\ \A a, b \in DOMAIN query.outputs : query.outputs[a] = query.outputs[b]

\* The steps of a run, in the order of the code.
Phases == << "checks", "discover", "derive", "optimize", "construct", "write" >>

\* C20: a run completes its steps in the order Core checks, input
\* discovery, address derivation, fee optimization, PSBT construction, file
\* write, each after the one before succeeded; the file is written only
\* after calculateOptimalFee returned a result and walletprocesspsbt
\* succeeded; a failure in any step ends the run with exit code 1 and no
\* file, and nothing happens after the exit.
C20_StepOrder ==
    /\ [] ( /\ Len(run.completed) <= Len(Phases)
            /\ run.completed = SubSeq(Phases, 1, Len(run.completed))
            /\ pc # "idle" => Len(run.completed) >= 3
            /\ (pc = "done" /\ outcome # "returned") =>
                  (run.step \in {"optimize", "exited"} /\ Len(run.completed) = 3)
            /\ run.fileWritten =>
                  /\ Returned
                  /\ run.completed = Phases
                  /\ DOMAIN run.outputsForTx # {}
            /\ run.exitCode \in {0 - 1, 0, 1}
            /\ run.exitCode # 0 - 1 <=> run.step = "exited"
            /\ run.exitCode = 1 <=> run.failedAt # "none"
            /\ run.exitCode = 1 => ~run.fileWritten
            /\ run.exitCode = 0 => run.fileWritten )
    /\ [][ /\ run.step # "exited"
           /\ Len(run.completed') >= Len(run.completed)
           /\ run'.fileWritten # run.fileWritten => run.step = "write" ]_vars

\* walletprocesspsbt failed after the optimizer had returned a result: the
\* run ended with exit code 1 and no file.
C20_Witness ==
    /\ run.failedAt = "processPsbt"
    /\ run.exitCode = 1
    /\ Returned
    /\ ~run.fileWritten

\* The txid:vout keys of a list of UTXOs.
KeysOf(utxos) == {<< utxos[k].txid, utxos[k].vout >> : k \in DOMAIN utxos}

\* The sum of the amounts of the wallet's UTXOs with the given keys.
RECURSIVE AmountOfKeys(_)
AmountOfKeys(keys) ==
    IF keys = {} THEN 0
    ELSE LET key == CHOOSE x \in keys : TRUE
         IN  Utxo(key[1]).amount + AmountOfKeys(keys \ {key})

\* C21: the inputs handed to the optimizer hold each UTXO once, keyed by
\* (txid, vout): they are exactly the distinct UTXOs of the source-address
\* list and the target-descriptor list, a UTXO in both lists is spent and
\* counted once, totalInputValue is the sum of the distinct UTXOs' amounts,
\* and no fee calculation starts without an input or with a total <= 0.
C21_InputsDeduplicated ==
    /\ run.step = "derive" =>
          /\ KeysOf(run.finalInputs)
                = KeysOf(run.sourceUtxos) \cup KeysOf(run.targetUtxos)
          /\ totalInputValue
                = AmountOfKeys(KeysOf(run.sourceUtxos) \cup KeysOf(run.targetUtxos))
    /\ run.step \notin {"none", "load", "checks", "discover", "exited"} =>
          /\ Len(run.finalInputs) >= 1
          /\ Cardinality(KeysOf(run.finalInputs)) = Len(run.finalInputs)
          /\ totalInputValue = AmountOfKeys(KeysOf(run.finalInputs))
          /\ totalInputValue >= 1
    /\ (run.step # "none" /\ pc # "idle") =>
          /\ inputs = InputsForTx(run.finalInputs)
          /\ numInputs = Cardinality(KeysOf(run.finalInputs))
          /\ totalInputValue = AmountOfKeys(KeysOf(run.finalInputs))
          /\ totalInputValue >= 1
    /\ run.failedAt \in {"load", "checks", "discover"} =>
          (pc = "idle" /\ oracleCalls = 0)

\* Both UTXOs of the wallet were listed for the source address and again
\* for the target descriptors: two inputs, counted once each.
C21_Witness ==
    /\ run.step = "derive"
    /\ Len(run.sourceUtxos) = 2
    /\ run.targetUtxos = run.sourceUtxos
    /\ Len(run.finalInputs) = 2
    /\ totalInputValue = Utxo(1).amount + Utxo(2).amount

\* The current guess passes the funds checks of the loop.
PassesFundsChecks ==
    /\ currentFeeGuess < totalInputValue
    /\ AmountFor(totalInputValue, currentFeeGuess, numTargets) > 0

\* C22: an iteration makes at most one oracle query and a query is made
\* only inside an iteration, one after the other; every iteration whose
\* guess passes the funds checks queries the oracle anew, with the input
\* list and N outputs of floor((totalInputValue - guess) / N) for the
\* current guess; an iteration that fails the checks makes no query, and the
\* recorded size changes only with a query.
C22_OneQueryPerIteration ==
    [][ /\ iterations' \in {iterations, iterations + 1}
        /\ oracleCalls' \in {oracleCalls, oracleCalls + 1}
        /\ oracleCalls' = oracleCalls + 1 => iterations' = iterations + 1
        /\ iterations' = iterations + 1 =>
              IF PassesFundsChecks
                  THEN /\ oracleCalls' = oracleCalls + 1
                       /\ query'.inputs = inputs
                       /\ Cardinality(DOMAIN query'.outputs) = numTargets
                       /\ \A a \in DOMAIN query'.outputs :
                             query'.outputs[a] =
                                 satsToBtcString((totalInputValue - currentFeeGuess)
                                                     \div numTargets)
                  ELSE oracleCalls' = oracleCalls /\ query' = query
        /\ oracleCalls' = oracleCalls =>
              (query' = query /\ lastCalculatedBaseVBytes' = lastCalculatedBaseVBytes)
      ]_vars

\* The oracle's answers of a call, query by query.
AnswersOf(tried) == [k \in 1..Len(tried) |-> tried[k].answer]

\* C23: calculateOptimalFee keeps no state across calls. A call starts with
\* freshly declared locals whatever was called before, and a finished call
\* that was given the same arguments and the same oracle answers as an
\* earlier call has tried the same sequence of guesses and has ended with
\* the same outcome, fee, amount and error.
C23_NoStateAcrossCalls ==
    run.step = "again" =>
        /\ pc = "start" => InitLocals
        /\ pc = "done" =>
              \A k \in 1..Len(run.earlier) :
                  (/\ run.earlier[k].call = ThisCall
                   /\ AnswersOf(run.earlier[k].tried) = AnswersOf(guesses))
                      => run.earlier[k] = FinishedCall

\* The first call tried two guesses and returned, another call with other
\* arguments ended on another guess, and the first call made again has
\* finished with the same answers.
C23_Witness ==
    /\ run.step = "again"
    /\ pc = "done"
    /\ Len(run.earlier) = 2
    /\ run.earlier[2].call # ThisCall
    /\ Len(run.earlier[2].tried) >= 2
    /\ run.earlier[1].call = ThisCall
    /\ AnswersOf(run.earlier[1].tried) = AnswersOf(guesses)
    /\ Len(guesses) >= 2
    /\ outcome = "returned"
    /\ run.earlier[2].finalFee # finalFee

\* The size-based fee every query of an amount-invariant oracle leads to.
ConstantSizeBasedFee ==
    SizeBasedFee(oracle.base + numInputs * estimatedWitnessVBytesPerInput,
                 feeRateSatPerVbyte)

\* C24: with an amount-invariant oracle and a constant size-based fee
\* S >= 1, every returned result has finalFee = S + ((total - S) mod N) and
\* amountPerOutput = (total - finalFee) / N exactly: finalFee is the least
\* fee F >= S for which total - F is divisible by N.
C24_ClosedForm ==
    (Returned /\ oracle.kind = "constant" /\ ConstantSizeBasedFee >= 1) =>
        /\ totalInputValue >= ConstantSizeBasedFee
        /\ finalFee = ConstantSizeBasedFee
                        + ((totalInputValue - ConstantSizeBasedFee) % numTargets)
        /\ amountPerOutput * numTargets = totalInputValue - finalFee
        /\ amountPerOutput = BigIntDiv(totalInputValue - finalFee, numTargets)
        /\ finalFee >= ConstantSizeBasedFee
        /\ \A f \in ConstantSizeBasedFee..(finalFee - 1) :
              (totalInputValue - f) % numTargets # 0

\* A call returned a fee above the size-based fee S >= 1 after raising its
\* guess.
C24_Witness ==
    /\ Returned
    /\ oracle.kind = "constant"
    /\ ConstantSizeBasedFee >= 1
    /\ finalFee > ConstantSizeBasedFee
    /\ numTargets >= 2
    /\ iterations >= 2

\* C25: with an amount-invariant oracle, total >= 1 and N >= 1, the search
\* loop is left within three iterations, by convergence or by an
\* insufficient-funds break (or by the oracle's own failure), so the loop
\* never runs out of its 20 iterations and never reports non-convergence.
C25_EndsWithinThree ==
    (oracle.kind = "constant" /\ totalInputValue >= 1 /\ numTargets >= 1) =>
        /\ iterations <= 3
        /\ i <= 2
        /\ pc = "loop" => LoopCondition(i)
        /\ outcome # "NonConvergence"
        /\ (pc = "after" \/ (pc = "done" /\ outcome # "SizingFailure")) =>
              \/ finalFee > 0 /\ finalFee = currentFeeGuess
              \/ /\ finalFee = 0 - 1
                 /\ amountPerOutput = 0
                 /\ \/ currentFeeGuess >= totalInputValue
                    \/ AmountFor(totalInputValue, currentFeeGuess, numTargets) <= 0

\* A small call with a constant oracle went through three iterations and
\* returned a result.
C25_Witness ==
    /\ oracle.kind = "constant"
    /\ Returned
    /\ iterations = 3
    /\ i = 2
    /\ totalInputValue <= MaxTotal

\* C26: the transaction runConsolidator finally creates is the one the
\* oracle sized in the converging iteration: the same input list, the same
\* target addresses and the same amount for each of them, and the fee
\* condition of that iteration (finalFee >= size-based fee + remainder, for
\* the size the oracle reported for this structure) holds for it.
C26_FinalTxIsSizedTx ==
    DOMAIN run.outputsForTx # {} =>
        /\ run.step \in {"convertToPsbt", "processPsbt", "write", "summary", "exited"}
        /\ Returned
        /\ InputsForTx(run.finalInputs) = query.inputs
        /\ inputs = query.inputs
        /\ run.outputsForTx = query.outputs
        /\ DOMAIN run.outputsForTx = {derivedAddressesMap[d] : d \in DOMAIN derivedAddressesMap}
        /\ \A a \in DOMAIN run.outputsForTx :
              run.outputsForTx[a] = satsToBtcString(amountPerOutput)
        /\ amountPerOutput = AmountFor(totalInputValue, finalFee, numTargets)
        /\ lastSizeBasedFee = SizeBasedFee(lastCalculatedBaseVBytes
                                               + numInputs * estimatedWitnessVBytesPerInput,
                                           feeRateSatPerVbyte)
        /\ finalFee >= lastSizeBasedFee + lastRemainderSats

\* The PSBT file was written for a transaction with two inputs and two
\* outputs whose fee was found in a later iteration than the first.
C26_Witness ==
    /\ run.fileWritten
    /\ Len(run.finalInputs) = 2
    /\ Cardinality(DOMAIN run.outputsForTx) = 2
    /\ iterations >= 2
    /\ run.outputsForTx = query.outputs

\* C27: a call with zero target outputs or with totalInputValue <= 0 is
\* rejected by a throw before the first loop iteration: it never enters the
\* loop, makes no oracle query, and ends with the error of the failed check
\* and no result.
C27_RejectedBeforeLoop ==
    (numTargets = 0 \/ totalInputValue <= 0) =>
        /\ pc \in {"start", "done"}
        /\ iterations = 0
        /\ oracleCalls = 0
        /\ query = NoQuery
        /\ i = 0
        /\ finalFee = 0 - 1
        /\ pc = "done" =>
              /\ outcome = (IF numTargets = 0 THEN "ZeroTargets" ELSE "NonPositiveTotal")
              /\ thrown = OwnError(outcome)

\* A call with two targets and a total of zero has thrown.
C27_Witness ==
    /\ pc = "done"
    /\ numTargets = 2
    /\ totalInputValue = 0
    /\ outcome = "NonPositiveTotal"
    /\ oracleCalls = 0

\* C28: in every reachable state the current guess is >= 1 (the fee rate
\* and the oracle's sizes are non-negative), so the value to distribute is
\* at most total - 1 and the defensive 'negative fee guess' exit is never
\* taken: the guess changes only upwards with the loop going on, and the
\* failure sentinels are set by the insufficient-funds breaks alone.
C28_GuessAtLeastOne ==
    /\ currentFeeGuess >= 1
    /\ totalInputValue - currentFeeGuess <= totalInputValue - 1
    /\ lastRequiredFee >= 0
    /\ i >= 1 => currentFeeGuess >= 2
    /\ (numTargets >= 1 /\ amountPerOutput = 0) =>
          /\ finalFee = 0 - 1
          /\ \/ currentFeeGuess >= totalInputValue
             \/ AmountFor(totalInputValue, currentFeeGuess, numTargets) <= 0

\* The guess of a call whose size-based fee is 0 was raised from 1 to the
\* remainder, and the loop goes on.
C28_Witness ==
    /\ pc = "loop"
    /\ i = 1
    /\ lastSizeBasedFee = 0
    /\ currentFeeGuess = lastRemainderSats
    /\ currentFeeGuess >= 2

\* C29 as written: the conversion is lossless for every non-negative
\* satoshi amount: btcToSats(satsToBtcString(x)) = x.
C29_RoundTripAlways ==
    (run.step = "parsed" /\ run.completed = << "format" >>) =>
        run.satoshis = run.satsAmount

\* C29: for every non-negative satoshi amount x of at most 30 significant
\* digits btcToSats(satsToBtcString(x)) = x, the string having exactly 8
\* decimal places; and btcToSats of a BTC string with a ninth decimal place
\* is the amount rounded down to whole satoshis: it never creates satoshis.
C29_RoundTrip ==
    /\ (run.step \in {"parse", "parsed"} /\ run.completed = << "format" >>) =>
          /\ Len(run.btcAmount.fraction) = BtcDecimalPlaces
          /\ SignificantDigits(run.satsAmount) <= DecimalPrecision =>
                StripZeros(run.btcAmount.whole \o run.btcAmount.fraction) = run.satsAmount
    /\ (run.step = "parsed" /\ run.completed = << "format" >>) =>
          /\ SignificantDigits(run.satsAmount) <= DecimalPrecision =>
                run.satoshis = run.satsAmount
          /\ Len(run.satsAmount) <= 9 =>
                /\ satsToBtcString(ValueOf(run.satsAmount))
                      = << ValueOf(run.btcAmount.whole), ValueOf(run.btcAmount.fraction) >>
                /\ ValueOf(run.satoshis) = ValueOf(run.satsAmount)
    /\ (run.step = "parsed" /\ run.completed = << >>) =>
          /\ Len(run.btcAmount.fraction) = BtcDecimalPlaces + 1
          /\ 10 * ValueOf(run.satoshis) <= ValueOf(run.btcAmount.fraction)
          /\ ValueOf(run.btcAmount.fraction) < 10 * (ValueOf(run.satoshis) + 1)

\* An amount of 30 digits, none of them zero, came back from its string.
C29_Witness ==
    /\ run.step = "parsed"
    /\ Len(run.satsAmount) = DecimalPrecision
    /\ SignificantDigits(run.satsAmount) = DecimalPrecision
    /\ run.satsAmount[2] = 9
    /\ run.satoshis = run.satsAmount

====
